---- MODULE Spec2Model ----
(***************************************************************************)
(* Administrative tooling of the Torres Project (backend/scripts/manage.py) *)
(* and its process-wide configuration (app/core/config.py).                *)
(*                                                                         *)
(* The database is the committed state `db`; every invocation of manage.py  *)
(* is a process p with its own SQLAlchemy session `sess[p]` holding the     *)
(* rows flushed but not yet committed. Each action is one stretch of a      *)
(* coroutine between two awaits on the database.                            *)
(***************************************************************************)
EXTENDS Integers, Sequences, FiniteSets, TLC

VARIABLES
    db,        \* committed rows: [users, plans, history, audit]
    now,       \* wall clock, in ticks
    pc,        \* pc[p]: position of invocation p
    argv,      \* argv[p]: sys.argv of invocation p
    sess,      \* sess[p]: session / connection state of invocation p
    loc,       \* loc[p]: local variables of the running coroutine
    out,       \* out[p]: lines printed by invocation p
    pre,       \* pre[p]: committed rows when invocation p started
    environ,   \* process environment read by Settings
    settings,  \* module-level settings object of config.py (NoSettings before)
    cfgpc,     \* position in the module body of config.py
    diag       \* lines printed by the module body of config.py

vars == <<db, now, pc, argv, sess, loc, out, pre, environ, settings, cfgpc, diag>>
adminVars == <<db, now, pc, argv, sess, loc, out, pre>>
cfgVars == <<environ, settings, cfgpc, diag>>

----------------------------------------------------------------------------
(* Bounds of the model *)

NumProcs == 2          \* invocations the model has room for
MaxAudit == 3          \* AuditLog rows in the initial database
MaxTicks == 1          \* clock ticks after the initial time
MaxKeyLen == 12        \* longest SENDGRID_API_KEY tried
DrawSpread == 0        \* random draws tried: within DrawSpread of either end

(* Program constants *)

RetentionDays == 365   \* timedelta(days=365)
AdminCredits == 1000   \* user.credits = 1000
AdminCreditsPerMonth == 1000
AdminMaxCalculationsPerDay == 1000
MinHistory == 3        \* random.randint(3, 8)
MaxHistory == 8
MaskLen == 10          \* SENDGRID_API_KEY[:10]

(* Resolution of the clock: two ticks a day, so that a date differs from a
   datetime. *)
TicksPerDay == 2

Procs == 1..NumProcs
SeqProcs == {1}        \* the tool runs one invocation to completion at a time

Now0 == RetentionDays * TicksPerDay + 1

----------------------------------------------------------------------------
(* Small helpers *)

Max(S) == IF S = {} THEN 0 ELSE CHOOSE x \in S : \A y \in S : y <= x

Ids(S) == {r.id : r \in S}

Line(kind, s, n) == [kind |-> kind, s |-> s, n |-> n, e |-> ""]

\* print(f"<prefix>: {e}") for the exception e
ErrLine(prefix, e) == [kind |-> "error", s |-> prefix, n |-> 0, e |-> e]

Kinds(lines) == {lines[i].kind : i \in 1..Len(lines)}

\* datetime - timedelta(days=d)
MinusDays(t, d) == t - d * TicksPerDay

\* datetime.date(): the midnight that starts the day of t
DateOf(t) == (t \div TicksPerDay) * TicksPerDay

----------------------------------------------------------------------------
(* Data model (app.models_schemas.models) *)

PlanTypes == {"FREE", "PRO", "ENTERPRISE"}

\* The four tables, empty; schema says whether the tables exist.
EmptyDb == [users |-> {}, plans |-> {}, history |-> {}, audit |-> {},
            schema |-> TRUE]

NoSession == [open |-> FALSE, users |-> {}, plans |-> {}, history |-> {},
              auditDel |-> {}, ddl |-> "none"]

NoLocals == [ops |-> <<>>, opened |-> 0, commits |-> 0, confirm |-> "",
             user |-> 0, idx |-> 0, created |-> {}, cutoff |-> 0, t0 |-> 0,
             rowcount |-> 0, total_users |-> 0, total_calculations |-> 0,
             plan_stats |-> <<>>]

\* What a session reads: the committed rows and its own flushed rows.
View(p) ==
    [users   |-> db.users \cup sess[p].users,
     plans   |-> db.plans \cup sess[p].plans,
     history |-> db.history \cup sess[p].history,
     audit   |-> {a \in db.audit : a.id \notin sess[p].auditDel}]

\* Primary keys come from a sequence shared by all sessions.
AllUsers == db.users \cup UNION {sess[q].users : q \in Procs}
AllPlans == db.plans \cup UNION {sess[q].plans : q \in Procs}
AllHistory == db.history \cup UNION {sess[q].history : q \in Procs}

FreshId(S) == Max(Ids(S)) + 1

\* User.email is a unique key: an INSERT of an email that another session has
\* inserted and not yet committed or rolled back waits for that session.
EmailHeld(p, email) ==
    \E q \in Procs \ {p} : \E u \in sess[q].users : u.email = email

----------------------------------------------------------------------------
(* Entitlement Service: UserCreate and UserService.register_new_user.      *)
(* Their code is outside the two source files; they are modelled from the   *)
(* specification (sections 3 and 4.2).                                      *)

ValidEmails == {"admin@exemplo.com", "joao@exemplo.com", "maria@exemplo.com",
                "carlos@exemplo.com"}
ValidPasswords == {"minhasenha123A", "senha123A", "senha123B", "senha123C"}

\* UserCreate(email=..., password=...): raises ValidationError on a malformed
\* candidate.
UserCreateOk(email, password) ==
    email \in ValidEmails /\ password \in ValidPasswords

\* Starting balance and quotas of the default FREE plan (the specification
\* gives no figures: "zero or a small starting credit balance").
DefaultCredits == 0
FreeCreditsPerMonth == 3
FreeMaxCalculationsPerDay == 10

NewUser(id, email) == [id |-> id, email |-> email, credits |-> DefaultCredits]

DefaultPlan(id, uid) ==
    [id |-> id, user_id |-> uid, plan_type |-> "FREE",
     credits_per_month |-> FreeCreditsPerMonth,
     max_calculations_per_day |-> FreeMaxCalculationsPerDay,
     is_active |-> TRUE]

\* register_new_user(session, candidate): AlreadyExists when the email is
\* present (case-sensitive); otherwise flushes a User and its default plan
\* into the caller's session, without committing.
RegisterNewUser(p, email) ==
    IF \E u \in View(p).users : u.email = email
    THEN [ok |-> FALSE, users |-> {}, plans |-> {}, id |-> 0]
    ELSE LET uid == FreshId(AllUsers)
         IN  [ok    |-> TRUE,
              users |-> {NewUser(uid, email)},
              plans |-> {DefaultPlan(FreshId(AllPlans), uid)},
              id    |-> uid]

----------------------------------------------------------------------------
(* Session plumbing *)

\* await db.commit(): the flushed rows become committed rows.
Committed(p) ==
    [users   |-> db.users \cup sess[p].users,
     plans   |-> db.plans \cup sess[p].plans,
     history |-> db.history \cup sess[p].history,
     audit   |-> {a \in db.audit : a.id \notin sess[p].auditDel},
     schema  |-> db.schema]

MutReturnLeavesOpen(p, lines) ==
    /\ pc' = [pc EXCEPT ![p] = "done"]
    /\ sess' = sess
    /\ out' = [out EXCEPT ![p] = out[p] \o lines]

\* The coroutine returns after printing `lines`; leaving `async with` closes
\* the session, which discards whatever was not committed.
Return(p, lines) ==
    /\ pc' = [pc EXCEPT ![p] = "done"]
    /\ sess' = [sess EXCEPT ![p] = NoSession]
    /\ out' = [out EXCEPT ![p] = out[p] \o lines]

\* Exceptions the operations meet: a failure of the database or its
\* connection, and the errors of the Entitlement Service and of the ORM.
DBAPIError == "DBAPIError"
ValidationError == "ValidationError"
AlreadyExists == "AlreadyExists"
MultipleResultsFound == "MultipleResultsFound"

\* except Exception as e: print(f"<prefix>: {e}")
Caught(p, prefix, e) ==
    /\ Return(p, <<ErrLine(prefix, e)>>)
    /\ UNCHANGED <<db, now, argv, loc, pre, cfgVars>>

----------------------------------------------------------------------------
(* main(): command dispatch *)

Commands == {"create-admin", "reset-db", "seed-data", "cleanup-logs", "stats"}

Script == "scripts/manage.py"

AdminEmails == {"admin@exemplo.com", "maria@exemplo.com", "admin-sem-arroba"}

\* The command lines tried: every command, with too few, exact and too many
\* arguments for create-admin, and a flag after reset-db.
Argvs ==
    {<<Script>>, <<Script, "bogus">>, <<Script, "create-admin">>,
     <<Script, "create-admin", "admin@exemplo.com">>,
     <<Script, "create-admin", "admin@exemplo.com", "fraca">>,
     <<Script, "create-admin", "admin@exemplo.com", "minhasenha123A", "extra">>,
     <<Script, "reset-db">>, <<Script, "reset-db", "--yes">>,
     <<Script, "seed-data">>, <<Script, "cleanup-logs">>, <<Script, "stats">>}
    \cup {<<Script, "create-admin", e, "minhasenha123A">> : e \in AdminEmails}

\* The branch main() takes on sys.argv.
MutDispatchAtLeast(a) ==
    IF Len(a) < 2 THEN "help"
    ELSE IF a[2] = "create-admin"
         THEN IF Len(a) < 4 THEN "usage" ELSE "create_admin_user"
    ELSE IF a[2] = "reset-db" THEN "reset_database"
    ELSE IF a[2] = "seed-data" THEN "seed_sample_data"
    ELSE IF a[2] = "cleanup-logs" THEN "cleanup_old_logs"
    ELSE IF a[2] = "stats" THEN "show_system_stats"
    ELSE "unknown"

Dispatch(a) ==
    IF Len(a) < 2 THEN "help"
    ELSE IF a[2] = "create-admin"
         THEN IF Len(a) # 4 THEN "usage" ELSE "create_admin_user"
    ELSE IF a[2] = "reset-db" THEN "reset_database"
    ELSE IF a[2] = "seed-data" THEN "seed_sample_data"
    ELSE IF a[2] = "cleanup-logs" THEN "cleanup_old_logs"
    ELSE IF a[2] = "stats" THEN "show_system_stats"
    ELSE "unknown"

\* Operations that start with `async with SessionLocal() as db`.
SessionOps == {"create_admin_user", "seed_sample_data", "cleanup_old_logs",
               "show_system_stats"}

Entry(d) ==
    CASE d = "create_admin_user" -> "ca_select"
      [] d = "reset_database"    -> "rs_input"
      [] d = "seed_sample_data"  -> "sd_register"
      [] d = "cleanup_old_logs"  -> "cl_delete"
      [] d = "show_system_stats" -> "st_users"

Main(p, a) ==
    /\ pc[p] = "idle"
    /\ argv' = [argv EXCEPT ![p] = a]
    /\ pre' = [pre EXCEPT ![p] = db]
    /\ LET d == Dispatch(a) IN
       CASE d = "help" ->
              /\ pc' = [pc EXCEPT ![p] = "done"]
              /\ out' = [out EXCEPT ![p] = <<Line("help", "", 0)>>]
              /\ UNCHANGED <<sess, loc>>
         [] d = "usage" ->
              /\ pc' = [pc EXCEPT ![p] = "done"]
              /\ out' = [out EXCEPT ![p] = <<Line("usage", "create-admin", 0)>>]
              /\ UNCHANGED <<sess, loc>>
         [] d = "unknown" ->
              /\ pc' = [pc EXCEPT ![p] = "done"]
              /\ out' = [out EXCEPT ![p] = <<Line("unknown", a[2], 0)>>]
              /\ UNCHANGED <<sess, loc>>
         [] OTHER ->
              /\ pc' = [pc EXCEPT ![p] = Entry(d)]
              /\ loc' = [loc EXCEPT ![p].ops = Append(@, d),
                                   ![p].opened = IF d \in SessionOps THEN @ + 1 ELSE @,
                                   ![p].idx = IF d = "seed_sample_data" THEN 1 ELSE @]
              /\ sess' = [sess EXCEPT ![p].open = (d \in SessionOps)]
              /\ out' = [out EXCEPT ![p] =
                            IF d = "reset_database"
                            THEN <<Line("warning", "", 0)>> ELSE <<>>]
    /\ UNCHANGED <<db, now, cfgVars>>

\* The process ends; the next invocation starts from scratch.
Exit(p) ==
    /\ pc[p] \in {"done", "crashed"}
    /\ pc' = [pc EXCEPT ![p] = "idle"]
    /\ argv' = [argv EXCEPT ![p] = <<>>]
    /\ sess' = [sess EXCEPT ![p] = NoSession]
    /\ loc' = [loc EXCEPT ![p] = NoLocals]
    /\ out' = [out EXCEPT ![p] = <<>>]
    /\ pre' = [pre EXCEPT ![p] = EmptyDb]
    /\ UNCHANGED <<db, now, cfgVars>>

----------------------------------------------------------------------------
(* create_admin_user(email, password) *)

Email(p) == argv[p][3]
Password(p) == argv[p][4]

MutAdminPlanInactive(id, uid) ==
    [id |-> id, user_id |-> uid, plan_type |-> "ENTERPRISE",
     credits_per_month |-> AdminCreditsPerMonth,
     max_calculations_per_day |-> AdminMaxCalculationsPerDay,
     is_active |-> FALSE]

AdminPlan(id, uid) ==
    [id |-> id, user_id |-> uid, plan_type |-> "ENTERPRISE",
     credits_per_month |-> AdminCreditsPerMonth,
     max_calculations_per_day |-> AdminMaxCalculationsPerDay,
     is_active |-> TRUE]

MutCA_SelectUnchecked(p, fault) ==
    /\ pc[p] = "ca_select"
    /\ IF fault
       THEN Caught(p, "Erro ao criar admin", DBAPIError)
       ELSE /\ pc' = [pc EXCEPT ![p] = "ca_register"]
            /\ UNCHANGED <<db, now, argv, sess, loc, out, pre, cfgVars>>

\* select(User).where(User.email == email); scalar_one_or_none()
CA_Select(p, fault) ==
    /\ pc[p] = "ca_select"
    /\ LET found == {u \in View(p).users : u.email = Email(p)} IN
       IF fault
       THEN Caught(p, "Erro ao criar admin", DBAPIError)
       ELSE IF Cardinality(found) > 1
       THEN Caught(p, "Erro ao criar admin", MultipleResultsFound)
       ELSE IF found # {}
       THEN /\ Return(p, <<Line("exists", Email(p), 0)>>)
            /\ UNCHANGED <<db, now, argv, loc, pre, cfgVars>>
       ELSE /\ pc' = [pc EXCEPT ![p] = "ca_register"]
            /\ UNCHANGED <<db, now, argv, sess, loc, out, pre, cfgVars>>

MutCA_RegisterCommitsUser(p, fault) ==
    /\ pc[p] = "ca_register"
    /\ LET r == RegisterNewUser(p, Email(p)) IN
       IF ~UserCreateOk(Email(p), Password(p))
       THEN Caught(p, "Erro ao criar admin", ValidationError)
       ELSE IF fault
       THEN Caught(p, "Erro ao criar admin", DBAPIError)
       ELSE IF ~r.ok
       THEN Caught(p, "Erro ao criar admin", AlreadyExists)
       ELSE /\ db' = [db EXCEPT !.users = @ \cup r.users,
                                !.plans = @ \cup r.plans]
            /\ sess' = [sess EXCEPT
                 ![p].users = @ \cup {[u EXCEPT !.credits = AdminCredits] : u \in r.users},
                 ![p].plans = @ \cup {AdminPlan(FreshId(AllPlans \cup r.plans), r.id)}]
            /\ loc' = [loc EXCEPT ![p].user = r.id]
            /\ pc' = [pc EXCEPT ![p] = "ca_commit"]
            /\ UNCHANGED <<now, argv, out, pre, cfgVars>>

MutCA_RegisterUpgradesExisting(p, fault) ==
    /\ pc[p] = "ca_register"
    /\ LET r == RegisterNewUser(p, Email(p)) IN
       IF ~UserCreateOk(Email(p), Password(p))
       THEN Caught(p, "Erro ao criar admin", ValidationError)
       ELSE IF fault
       THEN Caught(p, "Erro ao criar admin", DBAPIError)
       ELSE IF ~r.ok
       THEN LET u == CHOOSE u \in View(p).users : u.email = Email(p) IN
            /\ sess' = [sess EXCEPT
                 ![p].plans = @ \cup {AdminPlan(FreshId(AllPlans), u.id)}]
            /\ loc' = [loc EXCEPT ![p].user = u.id]
            /\ pc' = [pc EXCEPT ![p] = "ca_commit"]
            /\ UNCHANGED <<db, now, argv, out, pre, cfgVars>>
       ELSE /\ ~EmailHeld(p, Email(p))
            /\ sess' = [sess EXCEPT
                 ![p].users = @ \cup {[u EXCEPT !.credits = AdminCredits] : u \in r.users},
                 ![p].plans = @ \cup r.plans
                                \cup {AdminPlan(FreshId(AllPlans \cup r.plans), r.id)}]
            /\ loc' = [loc EXCEPT ![p].user = r.id]
            /\ pc' = [pc EXCEPT ![p] = "ca_commit"]
            /\ UNCHANGED <<db, now, argv, out, pre, cfgVars>>

\* UserCreate(...); register_new_user(...); user.credits = 1000;
\* db.add(admin_plan)
CA_Register(p, fault) ==
    /\ pc[p] = "ca_register"
    /\ LET r == RegisterNewUser(p, Email(p)) IN
       IF ~UserCreateOk(Email(p), Password(p))
       THEN Caught(p, "Erro ao criar admin", ValidationError)
       ELSE IF fault
       THEN Caught(p, "Erro ao criar admin", DBAPIError)
       ELSE IF ~r.ok
       THEN Caught(p, "Erro ao criar admin", AlreadyExists)
       ELSE /\ ~EmailHeld(p, Email(p))
            /\ sess' = [sess EXCEPT
                 ![p].users = @ \cup {[u EXCEPT !.credits = AdminCredits] : u \in r.users},
                 ![p].plans = @ \cup r.plans
                                \cup {AdminPlan(FreshId(AllPlans \cup r.plans), r.id)}]
            /\ loc' = [loc EXCEPT ![p].user = r.id]
            /\ pc' = [pc EXCEPT ![p] = "ca_commit"]
            /\ UNCHANGED <<db, now, argv, out, pre, cfgVars>>

\* await db.commit() and the three lines of the success report
CA_Commit(p, fault) ==
    /\ pc[p] = "ca_commit"
    /\ IF fault
       THEN Caught(p, "Erro ao criar admin", DBAPIError)
       ELSE /\ db' = Committed(p)
            /\ loc' = [loc EXCEPT ![p].commits = @ + 1]
            /\ Return(p, <<Line("admin_created", Email(p), 0),
                           Line("credits", "", 1000),
                           Line("plan", "Enterprise", 0)>>)
            /\ UNCHANGED <<now, argv, pre, cfgVars>>

----------------------------------------------------------------------------
(* reset_database() *)

Confirmation == "CONFIRMO"

\* What the operator may type at the prompt (input() strips the newline only).
Typed == {"CONFIRMO", "", "confirmo", "CONFIRMO ", "sim"}

MutConfirmedAnyCase(typed) == typed \in {"CONFIRMO", "confirmo"}

\* confirm != "CONFIRMO" is false
Confirmed(typed) == typed = Confirmation

\* confirm = input(...) and the comparison with 'CONFIRMO'
RS_Input(p, typed) ==
    /\ pc[p] = "rs_input"
    /\ loc' = [loc EXCEPT ![p].confirm = typed]
    /\ IF Confirmed(typed)
       THEN /\ pc' = [pc EXCEPT ![p] = "rs_drop"]
            /\ UNCHANGED <<sess, out>>
       ELSE Return(p, <<Line("cancelled", "", 0)>>)
    /\ UNCHANGED <<db, now, argv, pre, cfgVars>>

\* input() on a closed stdin raises EOFError outside any try: it leaves
\* reset_database, main and asyncio.run.
RS_InputEOF(p) ==
    /\ pc[p] = "rs_input"
    /\ pc' = [pc EXCEPT ![p] = "crashed"]
    /\ out' = [out EXCEPT ![p] = Append(@, Line("traceback", "EOFError", 0))]
    /\ UNCHANGED <<db, now, argv, sess, loc, pre, cfgVars>>

MutRS_DropAutocommit(p, fault) ==
    /\ pc[p] = "rs_drop"
    /\ IF fault
       THEN Caught(p, "Erro ao resetar banco", DBAPIError)
       ELSE /\ db' = [EmptyDb EXCEPT !.schema = FALSE]
            /\ sess' = [sess EXCEPT ![p].ddl = "dropped"]
            /\ pc' = [pc EXCEPT ![p] = "rs_create"]
            /\ UNCHANGED <<now, argv, loc, out, pre, cfgVars>>

\* engine.begin() and run_sync(Base.metadata.drop_all), inside the
\* connection's transaction (DDL is transactional on the PostgreSQL
\* database the configuration names)
RS_Drop(p, fault) ==
    /\ pc[p] = "rs_drop"
    /\ IF fault
       THEN Caught(p, "Erro ao resetar banco", DBAPIError)
       ELSE /\ sess' = [sess EXCEPT ![p].ddl = "dropped"]
            /\ pc' = [pc EXCEPT ![p] = "rs_create"]
            /\ UNCHANGED <<db, now, argv, loc, out, pre, cfgVars>>

\* run_sync(Base.metadata.create_all), same transaction
RS_Create(p, fault) ==
    /\ pc[p] = "rs_create"
    /\ IF fault
       THEN Caught(p, "Erro ao resetar banco", DBAPIError)
       ELSE /\ sess' = [sess EXCEPT ![p].ddl = "created"]
            /\ pc' = [pc EXCEPT ![p] = "rs_commit"]
            /\ UNCHANGED <<db, now, argv, loc, out, pre, cfgVars>>

MutRecreatedKeepsPlans == [EmptyDb EXCEPT !.plans = db.plans]

MutRecreatedKeepsAudit == [EmptyDb EXCEPT !.audit = db.audit]

\* The tables after drop_all and create_all.
Recreated == EmptyDb

\* leaving `async with engine.begin()` commits the transaction
RS_Commit(p, fault) ==
    /\ pc[p] = "rs_commit"
    /\ IF fault
       THEN Caught(p, "Erro ao resetar banco", DBAPIError)
       ELSE /\ db' = Recreated
            /\ loc' = [loc EXCEPT ![p].commits = @ + 1]
            /\ Return(p, <<Line("reset_ok", "", 0)>>)
            /\ UNCHANGED <<now, argv, pre, cfgVars>>

----------------------------------------------------------------------------
(* seed_sample_data() *)

sample_users == <<[email |-> "joao@exemplo.com", password |-> "senha123A"],
                  [email |-> "maria@exemplo.com", password |-> "senha123B"],
                  [email |-> "carlos@exemplo.com", password |-> "senha123C"]>>

MutHistoryCounts == (MinHistory - 1)..MaxHistory

\* random.randint(3, 8)
HistoryCounts == MinHistory..MaxHistory

\* The draws the model follows: the values within DrawSpread of the lowest
\* and of the highest.
DrawsTried ==
    {n \in HistoryCounts :
        n <= MinHistory + DrawSpread \/ n >= MaxHistory - DrawSpread}

\* The n QueryHistory rows added for user uid. The random figures of a row
\* (icms_value, months, calculated_value, calculation_time_ms) are left out.
NewHistory(n, uid) ==
    LET base == Max(Ids(AllHistory)) IN
    {[id |-> base + i, user_id |-> uid, created_at |-> now] : i \in 1..n}

MutSD_RegisterCommitsEach(p, n, fault) ==
    /\ pc[p] = "sd_register"
    /\ LET s == sample_users[loc[p].idx]
           r == RegisterNewUser(p, s.email) IN
       IF ~UserCreateOk(s.email, s.password)
       THEN Caught(p, "Erro ao criar dados", ValidationError)
       ELSE IF fault
       THEN Caught(p, "Erro ao criar dados", DBAPIError)
       ELSE IF ~r.ok
       THEN Caught(p, "Erro ao criar dados", AlreadyExists)
       ELSE /\ db' = [db EXCEPT !.users = @ \cup r.users,
                                !.plans = @ \cup r.plans,
                                !.history = @ \cup NewHistory(n, r.id)]
            /\ loc' = [loc EXCEPT ![p].idx = @ + 1,
                                  ![p].created = @ \cup {r.id}]
            /\ pc' = [pc EXCEPT ![p] = IF loc[p].idx = Len(sample_users)
                                       THEN "sd_commit" ELSE "sd_register"]
            /\ UNCHANGED <<now, argv, sess, out, pre, cfgVars>>

\* One turn of the loop: UserCreate, register_new_user, then the inner loop
\* of db.add(history).
SD_Register(p, n, fault) ==
    /\ pc[p] = "sd_register"
    /\ LET s == sample_users[loc[p].idx]
           r == RegisterNewUser(p, s.email) IN
       IF ~UserCreateOk(s.email, s.password)
       THEN Caught(p, "Erro ao criar dados", ValidationError)
       ELSE IF fault
       THEN Caught(p, "Erro ao criar dados", DBAPIError)
       ELSE IF ~r.ok
       THEN Caught(p, "Erro ao criar dados", AlreadyExists)
       ELSE /\ ~EmailHeld(p, s.email)
            /\ sess' = [sess EXCEPT ![p].users = @ \cup r.users,
                                    ![p].plans = @ \cup r.plans,
                                    ![p].history = @ \cup NewHistory(n, r.id)]
            /\ loc' = [loc EXCEPT ![p].idx = @ + 1,
                                  ![p].created = @ \cup {r.id}]
            /\ pc' = [pc EXCEPT ![p] = IF loc[p].idx = Len(sample_users)
                                       THEN "sd_commit" ELSE "sd_register"]
            /\ UNCHANGED <<db, now, argv, out, pre, cfgVars>>

\* await db.commit() after the loop
SD_Commit(p, fault) ==
    /\ pc[p] = "sd_commit"
    /\ IF fault
       THEN Caught(p, "Erro ao criar dados", DBAPIError)
       ELSE /\ db' = Committed(p)
            /\ loc' = [loc EXCEPT ![p].commits = @ + 1]
            /\ Return(p, <<Line("seed_ok", "", 0)>>)
            /\ UNCHANGED <<now, argv, pre, cfgVars>>

----------------------------------------------------------------------------
(* cleanup_old_logs() *)

MutOldLogsInclusive(rows, cutoff) == {a \in rows : a.created_at <= cutoff}

\* delete(AuditLog).where(AuditLog.created_at < cutoff_date)
OldLogs(rows, cutoff) == {a \in rows : a.created_at < cutoff}

\* result.rowcount
Rowcount(matched) == Cardinality(matched)

\* cutoff_date = datetime.now() - timedelta(days=365); execute the delete
CL_Delete(p, fault) ==
    /\ pc[p] = "cl_delete"
    /\ IF fault
       THEN Caught(p, "Erro ao limpar logs", DBAPIError)
       ELSE LET cutoff_date == MinusDays(now, RetentionDays)
                matched == OldLogs(View(p).audit, cutoff_date) IN
            /\ sess' = [sess EXCEPT ![p].auditDel = @ \cup Ids(matched)]
            /\ loc' = [loc EXCEPT ![p].cutoff = cutoff_date,
                                  ![p].t0 = now,
                                  ![p].rowcount = Rowcount(matched)]
            /\ pc' = [pc EXCEPT ![p] = "cl_commit"]
            /\ UNCHANGED <<db, now, argv, out, pre, cfgVars>>

MutCL_CommitReportsFirst(p, fault) ==
    /\ pc[p] = "cl_commit"
    /\ db' = IF fault THEN db ELSE Committed(p)
    /\ loc' = [loc EXCEPT ![p].commits = IF fault THEN @ ELSE @ + 1]
    /\ Return(p, <<Line("removed", "", loc[p].rowcount)>>)
    /\ UNCHANGED <<now, argv, pre, cfgVars>>

\* await db.commit(), then the report of result.rowcount
CL_Commit(p, fault) ==
    /\ pc[p] = "cl_commit"
    /\ IF fault
       THEN Caught(p, "Erro ao limpar logs", DBAPIError)
       ELSE /\ db' = Committed(p)
            /\ loc' = [loc EXCEPT ![p].commits = @ + 1]
            /\ Return(p, <<Line("removed", "", loc[p].rowcount)>>)
            /\ UNCHANGED <<now, argv, pre, cfgVars>>

----------------------------------------------------------------------------
(* show_system_stats() *)

\* select(func.count(User.id))
ST_Users(p, fault) ==
    /\ pc[p] = "st_users"
    /\ IF fault
       THEN Caught(p, "Erro ao buscar estatisticas", DBAPIError)
       ELSE /\ loc' = [loc EXCEPT ![p].total_users = Cardinality(View(p).users)]
            /\ pc' = [pc EXCEPT ![p] = "st_calcs"]
            /\ UNCHANGED <<db, now, argv, sess, out, pre, cfgVars>>

\* select(func.count(QueryHistory.id))
ST_Calcs(p, fault) ==
    /\ pc[p] = "st_calcs"
    /\ IF fault
       THEN Caught(p, "Erro ao buscar estatisticas", DBAPIError)
       ELSE /\ loc' = [loc EXCEPT ![p].total_calculations =
                                      Cardinality(View(p).history)]
            /\ pc' = [pc EXCEPT ![p] = "st_plans"]
            /\ UNCHANGED <<db, now, argv, sess, out, pre, cfgVars>>

\* select(UserPlan.plan_type, func.count(UserPlan.id)).group_by(plan_type):
\* one (plan_type, count) pair for each plan type that has rows.
PlanStats(plans) ==
    [t \in {pl.plan_type : pl \in plans} |->
        Cardinality({pl \in plans : pl.plan_type = t})]

\* The rows are printed in the order the database returns them; the model
\* fixes one order.
PlanOrder == <<"FREE", "PRO", "ENTERPRISE">>

RECURSIVE PlanLines(_, _)
PlanLines(stats, i) ==
    IF i > Len(PlanOrder) THEN <<>>
    ELSE (IF PlanOrder[i] \in DOMAIN stats
          THEN <<Line("plan_count", PlanOrder[i], stats[PlanOrder[i]])>>
          ELSE <<>>) \o PlanLines(stats, i + 1)

\* the group-by query, then the header, the two totals and the plan lines
ST_Plans(p, fault) ==
    /\ pc[p] = "st_plans"
    /\ IF fault
       THEN Caught(p, "Erro ao buscar estatisticas", DBAPIError)
       ELSE LET plan_stats == PlanStats(View(p).plans) IN
            /\ loc' = [loc EXCEPT ![p].plan_stats = plan_stats]
            /\ out' = [out EXCEPT ![p] =
                         @ \o <<Line("stats_header", "", 0),
                                Line("total_users", "", loc[p].total_users),
                                Line("total_calculations", "",
                                     loc[p].total_calculations)>>
                           \o PlanLines(plan_stats, 1)]
            /\ pc' = [pc EXCEPT ![p] = "st_today"]
            /\ UNCHANGED <<db, now, argv, sess, pre, cfgVars>>

\* today = datetime.now().date(); count of QueryHistory.created_at >= today
ST_Today(p, fault) ==
    /\ pc[p] = "st_today"
    /\ IF fault
       THEN Caught(p, "Erro ao buscar estatisticas", DBAPIError)
       ELSE LET today == DateOf(now) IN
            /\ Return(p, <<Line("today", "",
                  Cardinality({h \in View(p).history : h.created_at >= today}))>>)
            /\ UNCHANGED <<db, now, argv, loc, pre, cfgVars>>

----------------------------------------------------------------------------
(* The clock. A tick is half a day and an invocation lasts far less, so the *)
(* clock is taken to advance between invocations.                           *)

AllIdle == \A q \in Procs : pc[q] = "idle"

Tick ==
    /\ AllIdle
    /\ now < Now0 + MaxTicks
    /\ now' = now + 1
    /\ UNCHANGED <<db, pc, argv, sess, loc, out, pre, cfgVars>>

----------------------------------------------------------------------------
(* app/core/config.py: class Settings and the module body *)

\* An environment variable is set to a string or absent; a string is a
\* sequence of characters.
Absent == [some |-> FALSE, val |-> <<>>]
Some(v) == [some |-> TRUE, val |-> v]

KeyChars == <<"S", "G", ".">>
KeyOfLen(n) == [i \in 1..n |-> KeyChars[(i % Len(KeyChars)) + 1]]

Environments == {Absent, Some("development"), Some("production"),
                 Some("Production"), Some("staging")}
ApiKeys == {Absent} \cup {Some(KeyOfLen(n)) : n \in 0..MaxKeyLen}

NoSettings == [exists |-> FALSE, ENVIRONMENT |-> "", SENDGRID_API_KEY |-> Absent]

\* Python truth value of an Optional[str]
Truthy(v) == v.some /\ Len(v.val) > 0

\* def __post_init__(self): TRUE when it raises ValueError
PostInitRaises(self) ==
    self.ENVIRONMENT = "production" /\ ~Truthy(self.SENDGRID_API_KEY)

\* The fields BaseSettings reads (case_sensitive names), with their defaults:
\* ENVIRONMENT: str = "development", SENDGRID_API_KEY: Optional[str] = None.
Fields(env) ==
    [exists |-> TRUE,
     ENVIRONMENT |-> IF env.ENVIRONMENT.some THEN env.ENVIRONMENT.val
                     ELSE "development",
     SENDGRID_API_KEY |-> env.SENDGRID_API_KEY]

\* Settings(): pydantic's BaseSettings.__init__ validates the fields and
\* returns. __post_init__ is a hook of dataclasses; a pydantic model is not
\* one and nothing calls the method (pydantic's own hook is
\* model_post_init), so construction cannot raise the ValueError.
SettingsInit(env) == [raised |-> FALSE, obj |-> Fields(env)]

\* settings = Settings()
CfgConstruct ==
    /\ cfgpc = "import"
    /\ LET r == SettingsInit(environ) IN
       IF r.raised
       THEN /\ cfgpc' = "failed"
            /\ UNCHANGED settings
       ELSE /\ settings' = r.obj
            /\ cfgpc' = "constructed"
    /\ UNCHANGED <<diag, environ, adminVars>>

\* if settings.ENVIRONMENT == "development": print the status line
CfgStatus ==
    /\ cfgpc = "constructed"
    /\ IF settings.ENVIRONMENT = "development"
       THEN /\ diag' = Append(diag,
                  [kind |-> "status", text |-> <<>>,
                   configured |-> Truthy(settings.SENDGRID_API_KEY)])
            /\ cfgpc' = "status"
       ELSE /\ cfgpc' = "loaded"
            /\ UNCHANGED diag
    /\ UNCHANGED <<settings, environ, adminVars>>

Take(s, n) == SubSeq(s, 1, IF Len(s) < n THEN Len(s) ELSE n)

\* f"{settings.SENDGRID_API_KEY[:10]}..."
Masked(key) == Take(key, MaskLen) \o <<".", ".", ".">>

\* if settings.SENDGRID_API_KEY: print the masked key
CfgMasked ==
    /\ cfgpc = "status"
    /\ IF Truthy(settings.SENDGRID_API_KEY)
       THEN diag' = Append(diag,
                [kind |-> "partial", text |-> Masked(settings.SENDGRID_API_KEY.val),
                 configured |-> TRUE])
       ELSE UNCHANGED diag
    /\ cfgpc' = "loaded"
    /\ UNCHANGED <<settings, environ, adminVars>>

----------------------------------------------------------------------------
(* Specifications *)

\* AuditLog rows written before the tool runs, one per age around the cutoff.
InitAudit == {[id |-> i, created_at |-> i - 1] : i \in 1..MaxAudit}

DefaultEnviron == [ENVIRONMENT |-> Absent, SENDGRID_API_KEY |-> Absent]

InitAdmin ==
    /\ db = [EmptyDb EXCEPT !.audit = InitAudit]
    /\ now = Now0
    /\ pc = [p \in Procs |-> "idle"]
    /\ argv = [p \in Procs |-> <<>>]
    /\ sess = [p \in Procs |-> NoSession]
    /\ loc = [p \in Procs |-> NoLocals]
    /\ out = [p \in Procs |-> <<>>]
    /\ pre = [p \in Procs |-> EmptyDb]

\* The administrative tool, one invocation at a time, on a loaded
\* configuration.
Init ==
    /\ InitAdmin
    /\ environ = DefaultEnviron
    /\ settings = Fields(DefaultEnviron)
    /\ cfgpc = "loaded"
    /\ diag = <<>>

Next ==
    \/ \E p \in SeqProcs, a \in Argvs : AllIdle /\ Main(p, a)
    \/ \E p \in Procs : Exit(p)
    \/ \E p \in Procs, fault \in BOOLEAN : CA_Select(p, fault)
    \/ \E p \in Procs, fault \in BOOLEAN : CA_Register(p, fault)
    \/ \E p \in Procs, fault \in BOOLEAN : CA_Commit(p, fault)
    \/ \E p \in Procs, typed \in Typed : RS_Input(p, typed)
    \/ \E p \in Procs : RS_InputEOF(p)
    \/ \E p \in Procs, fault \in BOOLEAN : RS_Drop(p, fault)
    \/ \E p \in Procs, fault \in BOOLEAN : RS_Create(p, fault)
    \/ \E p \in Procs, fault \in BOOLEAN : RS_Commit(p, fault)
    \/ \E p \in Procs, n \in DrawsTried, fault \in BOOLEAN : SD_Register(p, n, fault)
    \/ \E p \in Procs, fault \in BOOLEAN : SD_Commit(p, fault)
    \/ \E p \in Procs, fault \in BOOLEAN : CL_Delete(p, fault)
    \/ \E p \in Procs, fault \in BOOLEAN : CL_Commit(p, fault)
    \/ \E p \in Procs, fault \in BOOLEAN : ST_Users(p, fault)
    \/ \E p \in Procs, fault \in BOOLEAN : ST_Calcs(p, fault)
    \/ \E p \in Procs, fault \in BOOLEAN : ST_Plans(p, fault)
    \/ \E p \in Procs, fault \in BOOLEAN : ST_Today(p, fault)
    \/ Tick

Spec == Init /\ [][Next]_vars

\* Import of app.core.config under every environment.
InitSettings ==
    /\ InitAdmin
    /\ environ \in [ENVIRONMENT : Environments, SENDGRID_API_KEY : ApiKeys]
    /\ settings = NoSettings
    /\ cfgpc = "import"
    /\ diag = <<>>

NextSettings == CfgConstruct \/ CfgStatus \/ CfgMasked

SpecSettings == InitSettings /\ [][NextSettings]_vars

\* create-admin run by every process at once, each in its own session, on
\* emails nobody has registered; each process runs one invocation.
ConcArgvs ==
    {<<Script, "create-admin", e, "minhasenha123A">> :
        e \in AdminEmails \cap ValidEmails}

NextConc ==
    \/ \E p \in Procs, a \in ConcArgvs : Main(p, a)
    \/ \E p \in Procs, fault \in BOOLEAN : CA_Select(p, fault)
    \/ \E p \in Procs, fault \in BOOLEAN : CA_Register(p, fault)
    \/ \E p \in Procs, fault \in BOOLEAN : CA_Commit(p, fault)

SpecConc == Init /\ [][NextConc]_vars

----------------------------------------------------------------------------
(* Properties *)

\* The operation main() called in invocation p ("" when none).
Op(p) == IF loc[p].ops = <<>> THEN "" ELSE loc[p].ops[1]

Ended(p) == pc[p] \in {"done", "crashed"}

Registered(rows, email) == \E u \in rows.users : u.email = email

\* The only failure printed is an infrastructure failure of the database.
OnlyDbFailure(p, prefix) == out[p] = <<ErrLine(prefix, "DBAPIError")>>

IsCreateAdmin(p) == Op(p) = "create_admin_user"

\* C1: create-admin on a valid, unregistered email either reports a database
\* failure or commits, and once it has committed the database holds exactly
\* one user with that email, with credits 1000 and exactly one plan row that
\* is active and ENTERPRISE, whose credits_per_month and
\* max_calculations_per_day are both 1000.
C1_CreateAdminGrants ==
    \A p \in Procs :
        (pc[p] = "done" /\ IsCreateAdmin(p)) =>
            /\ (Email(p) \in ValidEmails /\ Password(p) \in ValidPasswords
                /\ ~Registered(pre[p], Email(p)))
                  => (loc[p].commits = 1
                      \/ OnlyDbFailure(p, "Erro ao criar admin"))
            /\ loc[p].commits > 0 =>
                 LET us == {u \in db.users : u.email = Email(p)} IN
                 /\ ~Registered(pre[p], Email(p))
                 /\ Cardinality(us) = 1
                 /\ \A u \in us :
                      LET ent == {pl \in db.plans :
                                     /\ pl.user_id = u.id
                                     /\ pl.is_active
                                     /\ pl.plan_type = "ENTERPRISE"} IN
                      /\ u.credits = 1000
                      /\ Cardinality(ent) = 1
                      /\ \A pl \in ent : /\ pl.credits_per_month = 1000
                                         /\ pl.max_calculations_per_day = 1000

C1_Witness ==
    \E p \in Procs :
        /\ pc[p] = "done" /\ IsCreateAdmin(p) /\ loc[p].commits = 1
        /\ pre[p].users # {}
        /\ \E u \in db.users : u.email = Email(p) /\ u.credits = 1000

\* C2: create-admin on an email that is registered when it starts changes no
\* row of any table, commits nothing and returns normally, reporting that
\* the user already exists (or, if the select itself fails, the database
\* failure).
C2_CreateAdminIdempotent ==
    \A p \in Procs :
        (Ended(p) /\ IsCreateAdmin(p) /\ Registered(pre[p], Email(p))) =>
            /\ db = pre[p]
            /\ loc[p].commits = 0
            /\ pc[p] = "done"
            /\ \/ out[p] = <<Line("exists", Email(p), 0)>>
               \/ OnlyDbFailure(p, "Erro ao criar admin")

C2_Witness ==
    \E p \in Procs :
        /\ pc[p] = "done" /\ IsCreateAdmin(p)
        /\ \E u \in pre[p].users : u.email = Email(p) /\ u.credits = 1000
        /\ out[p] = <<Line("exists", Email(p), 0)>>
        /\ db = pre[p]

IsReset(p) == Op(p) = "reset_database"

\* C3: reset-db drops nothing unless the operator typed exactly CONFIRMO:
\* whatever the command line, the drop step is reached only with that input,
\* and an invocation that read anything else (or nothing) leaves every table
\* as it was.
C3_ResetNeedsConfirmation ==
    \A p \in Procs :
        (IsReset(p) /\ loc[p].confirm # "CONFIRMO") =>
            /\ pc[p] \in {"rs_input", "done", "crashed"}
            /\ sess[p].ddl = "none"
            /\ db = pre[p]
            /\ loc[p].commits = 0

C3_Witness ==
    \E p \in Procs :
        /\ pc[p] = "done" /\ IsReset(p)
        /\ argv[p] = <<Script, "reset-db", "--yes">>
        /\ loc[p].confirm = "confirmo"
        /\ db.users # {} /\ db.plans # {} /\ db.history # {} /\ db.audit # {}
        /\ out[p] = <<Line("warning", "", 0), Line("cancelled", "", 0)>>

\* C4: reset-db confirmed with CONFIRMO either reports a database failure or
\* reports success, and when it reports success the User, UserPlan,
\* QueryHistory and AuditLog tables are all empty.
C4_ResetEmpties ==
    \A p \in Procs :
        (pc[p] = "done" /\ IsReset(p) /\ loc[p].confirm = "CONFIRMO") =>
            \/ /\ out[p] = <<Line("warning", "", 0), Line("reset_ok", "", 0)>>
               /\ db.users = {} /\ db.plans = {}
               /\ db.history = {} /\ db.audit = {}
            \/ out[p] = <<Line("warning", "", 0),
                          ErrLine("Erro ao resetar banco", "DBAPIError")>>

C4_Witness ==
    \E p \in Procs :
        /\ pc[p] = "done" /\ IsReset(p) /\ loc[p].confirm = "CONFIRMO"
        /\ pre[p].users # {} /\ pre[p].plans # {}
        /\ pre[p].history # {} /\ pre[p].audit # {}
        /\ db = EmptyDb

IsCleanup(p) == Op(p) = "cleanup_old_logs"

\* C5: once cleanup-logs has committed, the AuditLog table holds exactly the
\* rows it held before whose created_at is not strictly earlier than 365
\* days before the time the operation read the clock (a row exactly 365 days
\* old stays), and the User, UserPlan and QueryHistory tables are unchanged.
C5_CleanupKeepsRecent ==
    \A p \in Procs :
        (pc[p] = "done" /\ IsCleanup(p) /\ loc[p].commits > 0) =>
            /\ db.audit = {a \in pre[p].audit :
                              a.created_at >= loc[p].t0 - 365 * TicksPerDay}
            /\ db.users = pre[p].users
            /\ db.plans = pre[p].plans
            /\ db.history = pre[p].history

C5_Witness ==
    \E p \in Procs :
        /\ pc[p] = "done" /\ IsCleanup(p) /\ loc[p].commits = 1
        /\ \E a \in pre[p].audit : a \notin db.audit
        /\ \E a \in db.audit : a.created_at = loc[p].t0 - 365 * TicksPerDay
        /\ db.users # {}

\* C6: the count cleanup-logs reports is the number of AuditLog rows the
\* committed table lost in that invocation, and a count is reported only by
\* an invocation that committed.
C6_CleanupCountIsRemoved ==
    \A p \in Procs :
        (pc[p] = "done" /\ IsCleanup(p)) =>
            \A i \in 1..Len(out[p]) :
                out[p][i].kind = "removed" =>
                    /\ loc[p].commits = 1
                    /\ db.audit \subseteq pre[p].audit
                    /\ out[p][i].n = Cardinality(pre[p].audit \ db.audit)

C6_Witness ==
    \E p \in Procs :
        /\ pc[p] = "done" /\ IsCleanup(p)
        /\ \E i \in 1..Len(out[p]) :
              out[p][i].kind = "removed" /\ out[p][i].n > 0
        /\ db.audit # pre[p].audit

IsSeed(p) == Op(p) = "seed_sample_data"

SampleEmails == {sample_users[i].email : i \in 1..Len(sample_users)}

\* The users and history rows an invocation added to the committed tables.
CreatedUsers(p) == db.users \ pre[p].users
CreatedHistory(p) == db.history \ pre[p].history

HistoryInRange(p) ==
    \A u \in CreatedUsers(p) :
        LET n == Cardinality({h \in CreatedHistory(p) : h.user_id = u.id})
        IN  3 <= n /\ n <= 8

\* C7 as stated: seed-data that meets no database failure leaves all three
\* sample emails registered (those already registered skipped and reported,
\* the others created), every created user having 3 to 8 history rows.
C7_SeedSkipsRegistered ==
    \A p \in Procs :
        (pc[p] = "done" /\ IsSeed(p)
         /\ ~OnlyDbFailure(p, "Erro ao criar dados")) =>
            /\ \A e \in SampleEmails : Registered(db, e)
            /\ \A u \in CreatedUsers(p) : u.email \in SampleEmails
            /\ HistoryInRange(p)

\* C7 amended: seed-data creates the three sample users only when none of
\* the sample emails is registered, and then every user it creates has 3 to
\* 8 QueryHistory rows, each referencing that user; when a sample email is
\* already registered nothing is skipped: registration raises, the failure is
\* reported and no user, plan or history row of the run is committed.
C7_SeedAllOrNothing ==
    \A p \in Procs :
        (pc[p] = "done" /\ IsSeed(p)) =>
            IF \E e \in SampleEmails : Registered(pre[p], e)
            THEN /\ db = pre[p]
                 /\ loc[p].commits = 0
                 /\ \/ out[p] = <<ErrLine("Erro ao criar dados", "AlreadyExists")>>
                    \/ OnlyDbFailure(p, "Erro ao criar dados")
            ELSE \/ /\ OnlyDbFailure(p, "Erro ao criar dados")
                    /\ db = pre[p]
                 \/ /\ out[p] = <<Line("seed_ok", "", 0)>>
                    /\ loc[p].commits = 1
                    /\ pre[p].users \subseteq db.users
                    /\ Cardinality(CreatedUsers(p)) = 3
                    /\ {u.email : u \in CreatedUsers(p)} = SampleEmails
                    /\ HistoryInRange(p)
                    /\ \A h \in CreatedHistory(p) :
                          h.user_id \in Ids(CreatedUsers(p))
                    /\ pre[p].history \subseteq db.history

C7_Witness ==
    \E p \in Procs :
        /\ pc[p] = "done" /\ IsSeed(p) /\ loc[p].commits = 1
        /\ pre[p].users # {}
        /\ Cardinality(CreatedUsers(p)) = 3
        /\ \E u \in CreatedUsers(p) :
              Cardinality({h \in db.history : h.user_id = u.id}) = 8
        /\ \E u \in CreatedUsers(p) :
              Cardinality({h \in db.history : h.user_id = u.id}) = 3

\* The run the amendment is about: a sample email was registered, the run
\* failed on it and committed nothing.
C7_WitnessConflict ==
    \E p \in Procs :
        /\ pc[p] = "done" /\ IsSeed(p)
        /\ Registered(pre[p], "maria@exemplo.com")
        /\ ~Registered(pre[p], "joao@exemplo.com")
        /\ out[p] = <<ErrLine("Erro ao criar dados", "AlreadyExists")>>

IsStats(p) == Op(p) = "show_system_stats"

RECURSIVE SumPlanCounts(_)
SumPlanCounts(lines) ==
    IF lines = <<>> THEN 0
    ELSE (IF Head(lines).kind = "plan_count" THEN Head(lines).n ELSE 0)
         + SumPlanCounts(Tail(lines))

UsersWithActivePlan(rows) ==
    {u \in rows.users :
        \E pl \in rows.plans : pl.user_id = u.id /\ pl.is_active}

\* C8: whenever stats has printed its report, the total user count in it is
\* the number of User rows and the per-plan counts in it add up to the number
\* of users that hold an active plan.
C8_StatsCounts ==
    \A p \in Procs :
        (IsStats(p) /\ "stats_header" \in Kinds(out[p])) =>
            /\ \A i \in 1..Len(out[p]) :
                  out[p][i].kind = "total_users" =>
                      out[p][i].n = Cardinality(db.users)
            /\ SumPlanCounts(out[p]) = Cardinality(UsersWithActivePlan(db))

\* C9: importing config.py with ENVIRONMENT = "production" and
\* SENDGRID_API_KEY absent or empty fails, and no settings object exists; in
\* every other configuration the settings object is constructed.
C9_ProductionRequiresKey ==
    cfgpc # "import" =>
        IF /\ environ.ENVIRONMENT = Some("production")
           /\ ~Truthy(environ.SENDGRID_API_KEY)
        THEN cfgpc = "failed" /\ ~settings.exists
        ELSE cfgpc # "failed" /\ settings.exists

\* The command line is one main() serves without running an operation.
Refused(a) ==
    IF Len(a) < 2 THEN TRUE
    ELSE \/ a[2] \notin Commands
         \/ a[2] = "create-admin" /\ Len(a) - 2 # 2

Refusal(a) ==
    IF Len(a) < 2 THEN Line("help", "", 0)
    ELSE IF a[2] \notin Commands THEN Line("unknown", a[2], 0)
    ELSE Line("usage", "create-admin", 0)

\* C10: an invocation runs at most one operation; with no argument it prints
\* the help, with an unknown command an error naming it, and with
\* create-admin followed by other than exactly two arguments the usage
\* error, and in these three cases it runs no operation, opens no session
\* and changes no row.
C10_DispatchGuards ==
    \A p \in Procs :
        pc[p] # "idle" =>
            /\ Len(loc[p].ops) <= 1
            /\ loc[p].opened <= 1
            /\ Refused(argv[p]) =>
                 /\ pc[p] = "done"
                 /\ loc[p].ops = <<>>
                 /\ loc[p].opened = 0
                 /\ ~sess[p].open
                 /\ db = pre[p]
                 /\ out[p] = <<Refusal(argv[p])>>
            /\ ~Refused(argv[p]) => Len(loc[p].ops) = 1

C10_Witness ==
    \E p \in Procs :
        /\ pc[p] = "done"
        /\ Len(argv[p]) = 5 /\ argv[p][2] = "create-admin"
        /\ out[p] = <<Line("usage", "create-admin", 0)>>
        /\ db.users # {}


\* An administrator as create-admin means to leave it: credits 1000 and an
\* active ENTERPRISE plan.
FullAdmin(rows, u) ==
    /\ u.credits = 1000
    /\ \E pl \in rows.plans :
          pl.user_id = u.id /\ pl.is_active /\ pl.plan_type = "ENTERPRISE"

\* C11: create-admin is atomic. At every point of an invocation, which is
\* what the database keeps if the invocation fails or dies there, the
\* committed tables are either those it started from or those with the one
\* new user holding both credits 1000 and the active ENTERPRISE plan; no
\* committed state holds an administrator with only part of the three
\* effects.
C11_CreateAdminAtomic ==
    /\ \A p \in Procs :
          IsCreateAdmin(p) =>
              \/ db = pre[p]
              \/ /\ loc[p].commits = 1
                 /\ Cardinality(db.users \ pre[p].users) = 1
                 /\ \A u \in db.users \ pre[p].users :
                       u.email = Email(p) /\ FullAdmin(db, u)
    /\ \A u \in db.users :
          u.email = "admin@exemplo.com" => FullAdmin(db, u)

\* A failure after registration and before the commit: nothing was kept.
C11_Witness ==
    \E p \in Procs :
        /\ pc[p] = "done" /\ IsCreateAdmin(p)
        /\ loc[p].user # 0
        /\ loc[p].commits = 0
        /\ OnlyDbFailure(p, "Erro ao criar admin")
        /\ ~Registered(db, Email(p))


ActivePlans(rows, u) == {pl \in rows.plans : pl.user_id = u.id /\ pl.is_active}

\* C12: in every committed state every user has at most one UserPlan row
\* with is_active = true.
C12_OneActivePlan ==
    \A u \in db.users : Cardinality(ActivePlans(db, u)) <= 1


\* C13: seed-data is all-or-nothing. Until it reports success the committed
\* tables are those it started from, so a run in which a registration or an
\* insert raises commits no sample user, plan or history row, even one
\* created earlier in the run, and ends with the failure message alone;
\* success is reported only after the single commit that follows the whole
\* loop.
C13_SeedAtomic ==
    \A p \in Procs :
        IsSeed(p) =>
            IF pc[p] = "done" /\ "seed_ok" \in Kinds(out[p])
            THEN /\ loc[p].commits = 1
                 /\ loc[p].idx = Len(sample_users) + 1
                 /\ "error" \notin Kinds(out[p])
            ELSE /\ db = pre[p]
                 /\ loc[p].commits = 0
                 /\ pc[p] = "done" => Kinds(out[p]) = {"error"}

\* A sample user was registered in the run before a later one raised.
C13_Witness ==
    \E p \in Procs :
        /\ pc[p] = "done" /\ IsSeed(p)
        /\ loc[p].created # {}
        /\ out[p] = <<ErrLine("Erro ao criar dados", "AlreadyExists")>>
        /\ ~Registered(db, "joao@exemplo.com")
        /\ db = pre[p]


\* C14: reset-db drops and recreates the schema as one unit. No committed
\* state lacks the schema, and until the invocation reports success the
\* committed tables are those it started from: a failure of the drop, of the
\* recreate or of the commit ends with the failure message and the data
\* intact.
C14_ResetAtomic ==
    /\ db.schema
    /\ \A p \in Procs :
          IsReset(p) =>
              IF pc[p] = "done" /\ "reset_ok" \in Kinds(out[p])
              THEN loc[p].commits = 1 /\ "error" \notin Kinds(out[p])
              ELSE /\ db = pre[p]
                   /\ loc[p].commits = 0
                   /\ (pc[p] = "done" /\ loc[p].confirm = "CONFIRMO") =>
                         out[p] = <<Line("warning", "", 0),
                                    ErrLine("Erro ao resetar banco", "DBAPIError")>>

\* A confirmed reset that failed on a database holding rows.
C14_Witness ==
    \E p \in Procs :
        /\ pc[p] = "done" /\ IsReset(p) /\ loc[p].confirm = "CONFIRMO"
        /\ "error" \in Kinds(out[p])
        /\ db.users # {} /\ db.plans # {} /\ db.history # {} /\ db.audit # {}
        /\ db = pre[p]


\* C15: every operation returns normally on every path: no invocation ends
\* with an exception leaving the operation, and every failure it meets is
\* printed as a prefixed failure message.
C15_NoExceptionEscapes ==
    \A p \in Procs :
        /\ pc[p] # "crashed"
        /\ "traceback" \notin Kinds(out[p])


\* Positions inside an `async with SessionLocal() as db` block.
InSession(p) ==
    pc[p] \in {"ca_select", "ca_register", "ca_commit", "sd_register",
               "sd_commit", "cl_delete", "cl_commit", "st_users", "st_calcs",
               "st_plans", "st_today"}

\* C16: an operation that works on a session holds exactly one, from its
\* first step to its last, and has released it when it ends, whether it
\* completed, returned early on an existing user or caught an exception; no
\* session (and none of its uncommitted rows) outlives its operation.
C16_SessionScoped ==
    \A p \in Procs :
        /\ InSession(p) => sess[p].open /\ loc[p].opened = 1
        /\ ~InSession(p) => ~sess[p].open
        /\ pc[p] \in {"idle", "done", "crashed"} => sess[p] = NoSession
        /\ (pc[p] = "done" /\ Op(p) \in {"create_admin_user", "seed_sample_data",
                                         "cleanup_old_logs", "show_system_stats"})
              => loc[p].opened = 1

\* Exits by the early return of create-admin and by a caught exception.
C16_Witness ==
    \E p \in Procs :
        /\ pc[p] = "done" /\ loc[p].opened = 1 /\ sess[p] = NoSession
        /\ \/ IsCreateAdmin(p) /\ out[p] = <<Line("exists", Email(p), 0)>>
           \/ IsCleanup(p) /\ OnlyDbFailure(p, "Erro ao limpar logs")


\* The rows of `rows` whose user_id names no User row of the database d.
Orphans(d, rows) == {r \in rows : r.user_id \notin Ids(d.users)}

\* C17: in every committed state every UserPlan row and every QueryHistory
\* row references a User row that exists.
C17_ReferencesExist ==
    /\ Orphans(db, db.plans) = {}
    /\ Orphans(db, db.history) = {}

\* seed-data committed on top of an earlier administrator: plans of both
\* kinds and history rows are all present.
C17_Witness ==
    \E p \in Procs :
        /\ pc[p] = "done" /\ IsSeed(p) /\ loc[p].commits = 1
        /\ \E pl \in pre[p].plans : pl.plan_type = "ENTERPRISE"
        /\ db.history # {}
        /\ Cardinality(db.plans) > Cardinality(pre[p].plans)


\* The part of a "Chave (parcial)" line that comes from the key: the text
\* without its trailing "...".
Shown(line) == SubSeq(line.text, 1, Len(line.text) - 3)

StrictPrefix(s, t) == Len(s) < Len(t) /\ s = SubSeq(t, 1, Len(s))

\* C18: the startup diagnostic never prints SENDGRID_API_KEY in full: what
\* it shows of any configured key, keys of 10 characters or fewer included,
\* is a strict prefix of the key, and outside the development environment
\* nothing is printed at all.
C18_KeyNeverPrintedInFull ==
    /\ settings.ENVIRONMENT # "development" => diag = <<>>
    /\ \A i \in DOMAIN diag :
          diag[i].kind = "partial"
             => StrictPrefix(Shown(diag[i]), settings.SENDGRID_API_KEY.val)


\* The active ENTERPRISE plans of user u in the committed database.
AdminPlansOf(u) ==
    {pl \in db.plans :
        pl.user_id = u.id /\ pl.plan_type = "ENTERPRISE" /\ pl.is_active}

\* The create-admin invocations for email e that have ended.
EndedFor(e) ==
    {p \in Procs : pc[p] = "done" /\ IsCreateAdmin(p) /\ Email(p) = e}

\* C19: whatever the interleaving of concurrent create-admin invocations for
\* one unregistered email, the database never holds two users with that
\* email; the user it holds has credits 1000 and exactly one active
\* ENTERPRISE plan; at most one invocation commits; an invocation that did
\* not commit reports the existing user or a failure; and once an invocation
\* has ended otherwise than on a database failure the user is there.
C19_ConcurrentCreateAdmin ==
    \A e \in AdminEmails \cap ValidEmails :
        LET us == {u \in db.users : u.email = e} IN
        /\ Cardinality(us) <= 1
        /\ \A u \in us :
              u.credits = AdminCredits /\ Cardinality(AdminPlansOf(u)) = 1
        /\ Cardinality({p \in EndedFor(e) : loc[p].commits > 0}) <= 1
        /\ \A p \in EndedFor(e) :
              /\ loc[p].commits <= 1
              /\ loc[p].commits = 1
                    => out[p][1] = Line("admin_created", e, 0)
              /\ loc[p].commits = 0
                    => \/ out[p] = <<Line("exists", e, 0)>>
                       \/ Len(out[p]) = 1 /\ out[p][1].kind = "error"
              /\ ~OnlyDbFailure(p, "Erro ao criar admin") => us # {}

\* Two invocations for the same email both passed the existence check; one
\* committed, the other was refused at registration.
C19_Witness ==
    \E p, q \in Procs :
        /\ p # q /\ pc[p] = "done" /\ pc[q] = "done"
        /\ Email(p) = Email(q)
        /\ loc[p].commits = 1
        /\ loc[q].commits = 0
        /\ out[q] = <<ErrLine("Erro ao criar admin", "AlreadyExists")>>
        /\ Cardinality({u \in db.users : u.email = Email(p)}) = 1

====
